---------------------------- MODULE Spec2Model ----------------------------
(***************************************************************************)
(* Join/leave moderation and broadcast composition/fan-out of the bot in   *)
(* src/bot.py.  The three module-level stores (user_join_times,            *)
(* broadcast_data, active_chats) are the state; every handler coroutine is *)
(* a small process whose steps are cut at its await points (the gateway    *)
(* calls), because src/app.py hands every webhook call to a thread of its  *)
(* own and the handlers take no lock: between two awaits a handler runs    *)
(* alone, at an await another handler may run.                             *)
(***************************************************************************)
EXTENDS Integers, Sequences, FiniteSets, TLC

VARIABLES
    clock,            \* datetime.now(), in ticks
    user_join_times,  \* bot.py:42  user_key -> [join_time, user_id, chat_id]
    broadcast_data,   \* bot.py:43  user id -> [messages, start_time]
    active_chats,     \* bot.py:44  set of chat ids
    task,             \* the handler invocations in flight, one record per slot
    arrivals,         \* number of non-command messages received so far
    appended,         \* history: user id -> number of items appended since the
                      \* user's last begin, 0 without a live session
    last_join         \* history: user_key -> time of the most recent join recorded
                      \* since the pair's last completed leave

vars == <<clock, user_join_times, broadcast_data, active_chats, task, arrivals,
         appended, last_join>>

-----------------------------------------------------------------------------
(* Bounds of the model *)

MaxTime == 3
TicksPerHour == 2
MaxArrivals == 2

(* Program constants *)

BAN_DURATION_HOURS == 1

ADMIN_IDS == {1}

Chats == {100, 200}
Users == {1, 2}
TrackedUsers == {2}
TaskIds == {1, 2}

Statuses == {"creator", "administrator", "member", "restricted", "left", "kicked"}

\* timedelta(hours=BAN_DURATION_HOURS), in ticks
BanWindow == BAN_DURATION_HOURS * TicksPerHour

-----------------------------------------------------------------------------
(* Helpers *)

\* f"{chat.id}_{user.id}": two decimal integers joined by "_"; the string
\* determines both numbers, so the key is the pair.
user_key(chat, user) == <<chat, user>>

Keys == {user_key(c, u) : c \in Chats, u \in Users}

\* dict.pop(key, None)
DictPop(d, k) == [x \in (DOMAIN d) \ {k} |-> d[x]]

\* d[k] = v
DictSet(d, k, v) == [x \in (DOMAIN d) \cup {k} |-> IF x = k THEN v ELSE d[x]]

EmptyDict == [x \in {} |-> 0]

\* A slot with no handler running in it.
Idle == [pc |-> "idle", handler |-> "none", user |-> 0, chat |-> 0,
         old |-> "none", new |-> "none", text |-> "",
         found |-> FALSE, tracked |-> FALSE, elapsed |-> 0,
         messages |-> <<>>, aliased |-> FALSE, chats |-> {}, todo |-> {},
         cur |-> 0, idx |-> 0, total_messages |-> 0,
         success_count |-> 0, fail_count |-> 0,
         report |-> <<>>, calls |-> <<>>]

Free(t) == /\ task[t].pc = "idle"
           /\ \A s \in TaskIds : s < t => task[s].pc # "idle"

\* One gateway call as the handler issued it, with its outcome.
\* arg is the user banned or the message_id of the item sent (0 otherwise),
\* text names the text of a message or reply ("" otherwise).
Call(op, chat, arg, text, ok) ==
    [op |-> op, chat |-> chat, arg |-> arg, text |-> text, ok |-> ok]

SetTask(t, r) == task' = [task EXCEPT ![t] = r]

\* The invocation has returned (or its exception was logged); the slot is
\* given back.
Return(t) ==
    /\ task[t].pc = "done"
    /\ SetTask(t, Idle)
    /\ UNCHANGED <<clock, user_join_times, broadcast_data, active_chats, arrivals, appended, last_join>>

Tick ==
    /\ clock < MaxTime
    /\ clock' = clock + 1
    /\ UNCHANGED <<user_join_times, broadcast_data, active_chats, task, arrivals, appended, last_join>>

\* The (old, new) status pairs the chat_member updates are drawn from: a join,
\* a member leaving and an administrator being removed.
Transitions ==
    {<<"left", "member">>, <<"member", "left">>, <<"administrator", "kicked">>}

ChatMemberUpdates ==
    {[chat |-> c, user |-> u, old |-> p[1], new |-> p[2]] :
        c \in Chats, u \in TrackedUsers, p \in Transitions}

-----------------------------------------------------------------------------
(* Membership tracker: track_user_join, track_user_leave *)

\* bot.py:135-136
IsJoinTransition(old, new) ==
    /\ old \in {"left", "kicked", "restricted"}
    /\ new \in {"member", "administrator", "creator"}

\* bot.py:170-171
IsLeaveTransition(old, new) ==
    /\ old \in {"member", "administrator", "restricted"}
    /\ new \in {"left", "kicked"}

\* bot.py:139-145: the record written on a join (last join time wins)
JoinRecord(key, u) ==
    [join_time |-> clock, user_id |-> u.user, chat_id |-> u.chat]

\* bot.py:181
WithinBanWindowWrongLeq(time_in_chat) == time_in_chat <= BanWindow

WithinBanWindow(time_in_chat) == time_in_chat < BanWindow

\* The invocation's record when it starts on chat_member update u.  tracked and
\* elapsed are history: whether (chat, user) had a record when the update
\* arrived, and the time since the most recent recorded join.
Started(h, u) ==
    LET key == user_key(u.chat, u.user) IN
    [Idle EXCEPT !.handler = h, !.user = u.user, !.chat = u.chat,
                 !.old = u.old, !.new = u.new,
                 !.tracked = key \in DOMAIN user_join_times,
                 !.elapsed = IF key \in DOMAIN user_join_times
                             THEN clock - last_join[key] ELSE 0]

\* bot.py:125-148, up to the await of the welcome message
JoinBegin(t, u) ==
    LET key == user_key(u.chat, u.user)
        r == Started("track_user_join", u) IN
    /\ Free(t)
    /\ IF IsJoinTransition(u.old, u.new)
       THEN /\ user_join_times' = DictSet(user_join_times, key, JoinRecord(key, u))
            /\ active_chats' = active_chats \cup {u.chat}
            /\ last_join' = DictSet(last_join, key, clock)
            /\ SetTask(t, [r EXCEPT !.pc = "join_welcome"])
       ELSE /\ SetTask(t, [r EXCEPT !.pc = "done"])
            /\ UNCHANGED <<user_join_times, active_chats, last_join>>
    /\ UNCHANGED <<clock, broadcast_data, arrivals, appended>>

\* bot.py:150-155: the welcome message; a failure is logged and swallowed
JoinWelcome(t) ==
    /\ task[t].pc = "join_welcome"
    /\ \E ok \in BOOLEAN :
         SetTask(t, [task[t] EXCEPT
            !.pc = "done",
            !.calls = Append(@, Call("send_message", task[t].chat, 0, "welcome", ok))])
    /\ UNCHANGED <<clock, user_join_times, broadcast_data, active_chats, arrivals, appended, last_join>>

\* bot.py:217-219: user_join_times.pop(user_key, None), then the handler ends
LeaveFinishWrongKeep(t, r) ==
    /\ SetTask(t, [r EXCEPT !.pc = "done"])
    /\ UNCHANGED <<user_join_times, last_join>>

LeaveFinish(t, r) ==
    /\ SetTask(t, [r EXCEPT !.pc = "done"])
    /\ user_join_times' = DictPop(user_join_times, user_key(r.chat, r.user))
    /\ last_join' = DictPop(last_join, user_key(r.chat, r.user))

\* bot.py:176: what the handler does when user_join_times.get() gave nothing
LeaveUntrackedWrongRegister(t, r) ==
    /\ SetTask(t, [r EXCEPT !.pc = "done"])
    /\ active_chats' = active_chats \cup {r.chat}
    /\ UNCHANGED <<user_join_times, last_join>>

LeaveUntracked(t, r) ==
    /\ SetTask(t, [r EXCEPT !.pc = "done"])
    /\ UNCHANGED <<user_join_times, active_chats, last_join>>

\* bot.py:160-181, up to the await of ban_chat_member
LeaveBegin(t, u) ==
    LET key == user_key(u.chat, u.user)
        r == Started("track_user_leave", u) IN
    /\ Free(t)
    /\ IF ~IsLeaveTransition(u.old, u.new)
       THEN /\ SetTask(t, [r EXCEPT !.pc = "done"])
            /\ UNCHANGED <<user_join_times, active_chats, last_join>>
       ELSE IF key \notin DOMAIN user_join_times
       THEN LeaveUntracked(t, r)
       ELSE LET join_time == user_join_times[key].join_time
                time_in_chat == clock - join_time
                f == [r EXCEPT !.found = TRUE] IN
            /\ UNCHANGED active_chats
            /\ IF WithinBanWindow(time_in_chat)
               THEN /\ SetTask(t, [f EXCEPT !.pc = "leave_ban"])
                    /\ UNCHANGED <<user_join_times, last_join>>
               ELSE LeaveFinish(t, f)
    /\ UNCHANGED <<clock, broadcast_data, arrivals, appended>>

\* bot.py:184-187: await context.bot.ban_chat_member(...)
LeaveBan(t) ==
    /\ task[t].pc = "leave_ban"
    /\ \E ok \in BOOLEAN :
         SetTask(t, [task[t] EXCEPT
            !.pc = IF ok THEN "leave_notify" ELSE "leave_error_msg",
            !.calls = Append(@, Call("ban_chat_member", task[t].chat, task[t].user, "", ok))])
    /\ UNCHANGED <<clock, user_join_times, broadcast_data, active_chats, arrivals, appended, last_join>>

\* bot.py:198-202: the ban notification; its failure is caught by the same
\* except clause as a failure of the ban (bot.py:206)
LeaveNotify(t) ==
    /\ task[t].pc = "leave_notify"
    /\ \E ok \in BOOLEAN :
         LET r == [task[t] EXCEPT
                     !.calls = Append(@, Call("send_message", task[t].chat, 0, "banned", ok))] IN
         IF ok
         THEN LeaveFinish(t, r)
         ELSE /\ SetTask(t, [r EXCEPT !.pc = "leave_error_msg"])
              /\ UNCHANGED <<user_join_times, last_join>>
    /\ UNCHANGED <<clock, broadcast_data, active_chats, arrivals, appended>>

\* bot.py:209-215: the "could not ban" message, failure ignored
LeaveErrorMsg(t) ==
    /\ task[t].pc = "leave_error_msg"
    /\ \E ok \in BOOLEAN :
         LeaveFinish(t, [task[t] EXCEPT
            !.calls = Append(@, Call("send_message", task[t].chat, 0, "could_not_ban", ok))])
    /\ UNCHANGED <<clock, broadcast_data, active_chats, arrivals, appended>>

-----------------------------------------------------------------------------
(* Broadcast session store and dispatcher *)

\* The content an inbound non-command message is drawn from: one kind the bot
\* restages and one it does not.
InboundKinds == {"text", "poll"}

\* The chat the operator's commands and messages are sent in (/start is sent
\* in any chat).
CommandChat == CHOOSE c \in Chats : \A d \in Chats : c <= d

\* bot.py:278-322: the type collect_broadcast_message records for a message,
\* "none" for content it cannot restage
ItemType(kind) ==
    IF kind \in {"text", "photo", "video", "document", "sticker"} THEN kind ELSE "none"

\* bot.py:377-412: the gateway call that resends an item of each type
SendOp(type) ==
    CASE type = "text" -> "send_message"
      [] type = "photo" -> "send_photo"
      [] type = "video" -> "send_video"
      [] type = "document" -> "send_document"
      [] type = "sticker" -> "send_sticker"

\* A name bound to the list object of the operator's session (bot.py:360)
\* sees every later append to that list, until the session's dict is dropped
\* from broadcast_data: the slots marked aliased hold such a name.
Dropped(tk, user) ==
    [s \in TaskIds |->
        IF tk[s].user = user /\ tk[s].aliased
        THEN [tk[s] EXCEPT !.aliased = FALSE] ELSE tk[s]]

Appended(tk, user, item) ==
    [s \in TaskIds |->
        IF tk[s].user = user /\ tk[s].aliased
        THEN [tk[s] EXCEPT !.messages = Append(@, item)] ELSE tk[s]]

\* A handler that is left with one reply to await: update.message.reply_text(text)
Replying(r, text) == [r EXCEPT !.pc = "final_reply", !.text = text]

CommandStarted(h, user, chat) ==
    [Idle EXCEPT !.handler = h, !.user = user, !.chat = chat]

\* The last await of a handler: whether the reply is delivered or raises (the
\* exception is logged by the handler's except clause), the handler ends.
FinalReply(t) ==
    /\ task[t].pc = "final_reply"
    /\ \E ok \in BOOLEAN :
         SetTask(t, [task[t] EXCEPT
            !.pc = "done",
            !.calls = Append(@, Call("reply_text", task[t].chat, 0, task[t].text, ok))])
    /\ UNCHANGED <<clock, user_join_times, broadcast_data, active_chats, arrivals, appended, last_join>>

\* bot.py:54-76
StartCommand(t, user, chat) ==
    /\ Free(t)
    /\ active_chats' = active_chats \cup {chat}
    /\ SetTask(t, Replying(CommandStarted("start", user, chat), "welcome"))
    /\ UNCHANGED <<clock, user_join_times, broadcast_data, arrivals, appended, last_join>>

\* bot.py:100-123
StatsCommand(t, user) ==
    /\ Free(t)
    /\ SetTask(t, Replying(CommandStarted("stats", user, CommandChat),
                           IF user \notin ADMIN_IDS THEN "not_authorized" ELSE "stats"))
    /\ UNCHANGED <<clock, user_join_times, broadcast_data, active_chats, arrivals, appended, last_join>>

\* bot.py:225-259
BroadcastCommandWrongNoCheck(t, user) ==
    LET r == CommandStarted("start_broadcast", user, CommandChat) IN
    /\ Free(t)
    /\ broadcast_data' = DictSet(broadcast_data, user,
                             [messages |-> <<>>, start_time |-> clock])
    /\ appended' = [appended EXCEPT ![user] = 0]
    /\ task' = [Dropped(task, user) EXCEPT ![t] = Replying(r, "broadcast_started")]
    /\ UNCHANGED <<clock, user_join_times, active_chats, arrivals, last_join>>

BroadcastCommand(t, user) ==
    LET r == CommandStarted("start_broadcast", user, CommandChat) IN
    /\ Free(t)
    /\ IF user \notin ADMIN_IDS
       THEN /\ SetTask(t, Replying(r, "not_authorized"))
            /\ UNCHANGED <<broadcast_data, appended>>
       ELSE /\ broadcast_data' = DictSet(broadcast_data, user,
                                    [messages |-> <<>>, start_time |-> clock])
            /\ appended' = [appended EXCEPT ![user] = 0]
            /\ task' = [Dropped(task, user) EXCEPT ![t] = Replying(r, "broadcast_started")]
    /\ UNCHANGED <<clock, user_join_times, active_chats, arrivals, last_join>>

\* bot.py:325: broadcast_data[user.id]['messages'].append(message_data)
SessionAppendWrongPrepend(session, item) ==
    [session EXCEPT !.messages = <<item>> \o @]

SessionAppendWrongReplace(session, item) ==
    [session EXCEPT !.messages = <<item>>]

SessionAppend(session, item) ==
    [session EXCEPT !.messages = Append(@, item)]

\* bot.py:261-341
CollectMessage(t, user, kind) ==
    LET r == CommandStarted("collect_broadcast_message", user, CommandChat)
        item == [message_id |-> arrivals + 1, type |-> ItemType(kind)] IN
    /\ Free(t)
    /\ arrivals < MaxArrivals
    /\ IF user \notin DOMAIN broadcast_data
       THEN /\ SetTask(t, [r EXCEPT !.pc = "done"])
            /\ UNCHANGED <<broadcast_data, arrivals, appended>>
       ELSE IF ItemType(kind) = "none"
       THEN /\ SetTask(t, Replying(r, "unsupported"))
            /\ UNCHANGED <<broadcast_data, arrivals, appended>>
       ELSE /\ broadcast_data' =
                 [broadcast_data EXCEPT ![user] = SessionAppend(@, item)]
            /\ arrivals' = arrivals + 1
            /\ appended' = [appended EXCEPT ![user] = @ + 1]
            /\ task' = [Appended(task, user, item) EXCEPT ![t] = Replying(r, "collected")]
    /\ UNCHANGED <<clock, user_join_times, active_chats, last_join>>

\* bot.py:444-462
CancelCommandWrongKeep(t, user) ==
    LET r == CommandStarted("cancel_broadcast", user, CommandChat) IN
    /\ Free(t)
    /\ IF user \in DOMAIN broadcast_data
       THEN SetTask(t, Replying([r EXCEPT !.total_messages =
                                   Len(broadcast_data[user].messages)], "cancelled"))
       ELSE SetTask(t, Replying(r, "no_active_broadcast"))
    /\ UNCHANGED <<clock, user_join_times, broadcast_data, active_chats, arrivals,
                   appended, last_join>>

CancelCommand(t, user) ==
    LET r == CommandStarted("cancel_broadcast", user, CommandChat) IN
    /\ Free(t)
    /\ IF user \in DOMAIN broadcast_data
       THEN /\ broadcast_data' = DictPop(broadcast_data, user)
            /\ appended' = [appended EXCEPT ![user] = 0]
            /\ task' = [Dropped(task, user) EXCEPT ![t] =
                  Replying([r EXCEPT !.total_messages =
                               Len(broadcast_data[user].messages)], "cancelled")]
       ELSE /\ SetTask(t, Replying(r, "no_active_broadcast"))
            /\ UNCHANGED <<broadcast_data, appended>>
    /\ UNCHANGED <<clock, user_join_times, active_chats, arrivals, last_join>>

SendCommandWrongNoEmptyCheck(t, user) ==
    LET r == CommandStarted("send_broadcast", user, CommandChat) IN
    /\ Free(t)
    /\ IF user \notin ADMIN_IDS
       THEN SetTask(t, Replying(r, "not_authorized"))
       ELSE IF user \notin DOMAIN broadcast_data
       THEN SetTask(t, Replying(r, "no_messages"))
       ELSE SetTask(t, [r EXCEPT !.pc = "send_ack", !.found = TRUE])
    /\ UNCHANGED <<clock, user_join_times, broadcast_data, active_chats, arrivals, appended, last_join>>

\* bot.py:343-358, up to the await of the "Starting broadcast" reply; found
\* records that the command passed both checks (an operator, N >= 1 items)
SendCommand(t, user) ==
    LET r == CommandStarted("send_broadcast", user, CommandChat) IN
    /\ Free(t)
    /\ IF user \notin ADMIN_IDS
       THEN SetTask(t, Replying(r, "not_authorized"))
       ELSE IF user \notin DOMAIN broadcast_data \/ broadcast_data[user].messages = <<>>
       THEN SetTask(t, Replying(r, "no_messages"))
       ELSE SetTask(t, [r EXCEPT !.pc = "send_ack", !.found = TRUE])
    /\ UNCHANGED <<clock, user_join_times, broadcast_data, active_chats, arrivals, appended, last_join>>

CleanupWrongKeep(t, r) ==
    /\ SetTask(t, Replying([r EXCEPT
          !.aliased = FALSE,
          !.report = << [succeeded |-> r.success_count,
                         failed |-> r.fail_count,
                         itemsPerChat |-> r.total_messages,
                         totalDeliveries |-> r.success_count * r.total_messages,
                         activeChats |-> Cardinality(r.chats)] >>], "report"))
    /\ UNCHANGED <<broadcast_data, appended>>

\* bot.py:424-436: message_count is counted again from broadcast_data, the
\* session is popped and the report is composed; a session that is no longer
\* there raises KeyError, which ends the handler (bot.py:441)
Cleanup(t, r) ==
    IF r.user \notin DOMAIN broadcast_data
    THEN /\ SetTask(t, [r EXCEPT !.pc = "done", !.aliased = FALSE])
         /\ UNCHANGED <<broadcast_data, appended>>
    ELSE LET message_count == Len(broadcast_data[r.user].messages) IN
         /\ broadcast_data' = DictPop(broadcast_data, r.user)
         /\ appended' = [appended EXCEPT ![r.user] = 0]
         /\ task' = [Dropped(task, r.user) EXCEPT ![t] =
               Replying([r EXCEPT
                  !.aliased = FALSE,
                  !.report = << [succeeded |-> r.success_count,
                                 failed |-> r.fail_count,
                                 itemsPerChat |-> message_count,
                                 totalDeliveries |-> r.success_count * message_count,
                                 activeChats |-> Cardinality(r.chats)] >>], "report")]

\* bot.py:373-376 and 414-418: the for loop takes the next chat, in whatever
\* order list(active_chats) gave, and runs up to its next await: the first
\* send to that chat, the sleep after a chat without items, or the end of the
\* loop.
NextChatWrongLive(t, r) ==
    LET pending == r.todo \cup (active_chats \ r.chats) IN
    IF pending = {}
    THEN Cleanup(t, r)
    ELSE /\ \E c \in pending :
            LET n == [r EXCEPT !.cur = c, !.todo = @ \ {c},
                               !.chats = @ \cup {c}, !.idx = 1] IN
            IF n.messages = <<>>
            THEN SetTask(t, [n EXCEPT !.pc = "sleep", !.success_count = @ + 1])
            ELSE SetTask(t, [n EXCEPT !.pc = "send_item"])
         /\ UNCHANGED <<broadcast_data, appended>>

NextChat(t, r) ==
    IF r.todo = {}
    THEN Cleanup(t, r)
    ELSE /\ \E c \in r.todo :
            LET n == [r EXCEPT !.cur = c, !.todo = @ \ {c}, !.idx = 1] IN
            IF n.messages = <<>>
            THEN SetTask(t, [n EXCEPT !.pc = "sleep", !.success_count = @ + 1])
            ELSE SetTask(t, [n EXCEPT !.pc = "send_item"])
         /\ UNCHANGED <<broadcast_data, appended>>

\* bot.py:358-373: the "Starting broadcast" reply returns; the handler binds
\* the session's list, snapshots the chats and enters the loop
SendAck(t) ==
    /\ task[t].pc = "send_ack"
    /\ \E ok \in BOOLEAN :
         LET r == [task[t] EXCEPT
                     !.calls = Append(@, Call("reply_text", task[t].chat, 0, "starting", ok))] IN
         IF ~ok \/ r.user \notin DOMAIN broadcast_data
         THEN /\ SetTask(t, [r EXCEPT !.pc = "done"])
              /\ UNCHANGED <<broadcast_data, appended>>
         ELSE LET b == [r EXCEPT
                          !.messages = broadcast_data[r.user].messages,
                          !.aliased = TRUE,
                          !.chats = active_chats,
                          !.todo = active_chats,
                          !.total_messages = Len(broadcast_data[r.user].messages)] IN
              IF b.chats = {}
              THEN /\ SetTask(t, Replying([b EXCEPT !.aliased = FALSE], "no_active_chats"))
                   /\ UNCHANGED <<broadcast_data, appended>>
              ELSE NextChat(t, b)
    /\ UNCHANGED <<clock, user_join_times, active_chats, arrivals, last_join>>

\* bot.py:420-422: a send raised: the chat is counted failed and the loop goes
\* on with the next chat
ChatFailedWrongAbort(t, r) ==
    Cleanup(t, [r EXCEPT !.fail_count = @ + 1, !.todo = {}])

ChatFailedWrongSkip(t, r) ==
    IF r.idx < Len(r.messages)
    THEN /\ SetTask(t, [r EXCEPT !.idx = @ + 1])
         /\ UNCHANGED <<broadcast_data, appended>>
    ELSE NextChat(t, [r EXCEPT !.fail_count = @ + 1])

ChatFailedWrongCount(t, r) ==
    NextChat(t, [r EXCEPT !.success_count = @ + 1])

ChatFailed(t, r) ==
    NextChat(t, [r EXCEPT !.fail_count = @ + 1])

\* bot.py:376-412: one send of the inner loop returns or raises
SendItem(t) ==
    /\ task[t].pc = "send_item"
    /\ \E ok \in BOOLEAN :
         LET msg == task[t].messages[task[t].idx]
             r == [task[t] EXCEPT
                     !.calls = Append(@, Call(SendOp(msg.type), task[t].cur,
                                              msg.message_id, "", ok))] IN
         IF ~ok
         THEN ChatFailed(t, r)
         ELSE IF r.idx < Len(r.messages)
         THEN /\ SetTask(t, [r EXCEPT !.idx = @ + 1])
              /\ UNCHANGED <<broadcast_data, appended>>
         ELSE /\ SetTask(t, [r EXCEPT !.pc = "sleep", !.idx = @ + 1,
                                      !.success_count = @ + 1])
              /\ UNCHANGED <<broadcast_data, appended>>
    /\ UNCHANGED <<clock, user_join_times, active_chats, arrivals, last_join>>

\* bot.py:418: await asyncio.sleep(0.5) returns
SendSleep(t) ==
    /\ task[t].pc = "sleep"
    /\ NextChat(t, task[t])
    /\ UNCHANGED <<clock, user_join_times, active_chats, arrivals, last_join>>

-----------------------------------------------------------------------------
(* The membership handlers called on any chat_member update *)

Init ==
    /\ clock = 0
    /\ user_join_times = EmptyDict
    /\ broadcast_data = EmptyDict
    /\ active_chats = {}
    /\ task = [t \in TaskIds |-> Idle]
    /\ arrivals = 0
    /\ appended = [u \in Users |-> 0]
    /\ last_join = EmptyDict

NextMembership ==
    \/ Tick
    \/ \E t \in TaskIds, u \in ChatMemberUpdates : JoinBegin(t, u)
    \/ \E t \in TaskIds : JoinWelcome(t)
    \/ \E t \in TaskIds, u \in ChatMemberUpdates : LeaveBegin(t, u)
    \/ \E t \in TaskIds : LeaveBan(t)
    \/ \E t \in TaskIds : LeaveNotify(t)
    \/ \E t \in TaskIds : LeaveErrorMsg(t)
    \/ \E t \in TaskIds : Return(t)

SpecMembership == Init /\ [][NextMembership]_vars

\* The membership handlers when every (chat, user) joins once: a join is
\* taken only in a chat that is not in active_chats yet, and with one tracked
\* user that is a chat this user has no earlier recorded join in. Every leave
\* of a pair then meets the record of the same join.
JoinOnce(t, u) ==
    /\ IsJoinTransition(u.old, u.new)
    /\ u.chat \notin active_chats
    /\ JoinBegin(t, u)

NextLeaveRace ==
    \/ Tick
    \/ \E t \in TaskIds, u \in ChatMemberUpdates : JoinOnce(t, u)
    \/ \E t \in TaskIds : JoinWelcome(t)
    \/ \E t \in TaskIds, u \in ChatMemberUpdates : LeaveBegin(t, u)
    \/ \E t \in TaskIds : LeaveBan(t)
    \/ \E t \in TaskIds : LeaveNotify(t)
    \/ \E t \in TaskIds : LeaveErrorMsg(t)
    \/ \E t \in TaskIds : Return(t)

SpecLeaveRace == Init /\ [][NextLeaveRace]_vars

\* The membership handlers on chat_member updates of every (old, new) status
\* pair, in one chat and at one time.
StatusUpdates ==
    {[chat |-> CommandChat, user |-> u, old |-> o, new |-> n] :
        u \in TrackedUsers, o \in Statuses, n \in Statuses}

NextClassify ==
    \/ \E t \in TaskIds, u \in StatusUpdates : JoinBegin(t, u)
    \/ \E t \in TaskIds : JoinWelcome(t)
    \/ \E t \in TaskIds, u \in StatusUpdates : LeaveBegin(t, u)
    \/ \E t \in TaskIds : LeaveBan(t)
    \/ \E t \in TaskIds : LeaveNotify(t)
    \/ \E t \in TaskIds : LeaveErrorMsg(t)
    \/ \E t \in TaskIds : Return(t)

SpecClassify == Init /\ [][NextClassify]_vars

NextBroadcast ==
    \/ \E t \in TaskIds, u \in Users, c \in Chats : StartCommand(t, u, c)
    \/ \E t \in TaskIds, u \in Users : StatsCommand(t, u)
    \/ \E t \in TaskIds, u \in Users : BroadcastCommand(t, u)
    \/ \E t \in TaskIds, u \in Users, k \in InboundKinds : CollectMessage(t, u, k)
    \/ \E t \in TaskIds, u \in Users : CancelCommand(t, u)
    \/ \E t \in TaskIds, u \in Users : SendCommand(t, u)
    \/ \E t \in TaskIds : SendAck(t)
    \/ \E t \in TaskIds : SendItem(t)
    \/ \E t \in TaskIds : SendSleep(t)
    \/ \E t \in TaskIds : FinalReply(t)
    \/ \E t \in TaskIds : Return(t)

SpecBroadcast == Init /\ [][NextBroadcast]_vars

\* The session store's handlers with one chat in use: every command and
\* message is sent in CommandChat, which /start registers.
NextSession ==
    \/ \E t \in TaskIds, u \in ADMIN_IDS : StartCommand(t, u, CommandChat)
    \/ \E t \in TaskIds, u \in Users : StatsCommand(t, u)
    \/ \E t \in TaskIds, u \in Users : BroadcastCommand(t, u)
    \/ \E t \in TaskIds, u \in Users, k \in InboundKinds : CollectMessage(t, u, k)
    \/ \E t \in TaskIds, u \in Users : CancelCommand(t, u)
    \/ \E t \in TaskIds, u \in Users : SendCommand(t, u)
    \/ \E t \in TaskIds : SendAck(t)
    \/ \E t \in TaskIds : SendItem(t)
    \/ \E t \in TaskIds : SendSleep(t)
    \/ \E t \in TaskIds : FinalReply(t)
    \/ \E t \in TaskIds : Return(t)

SpecSession == Init /\ [][NextSession]_vars

\* A handler that waits on a gateway call or on asyncio.sleep is resumed when
\* the call returns or raises: the event loop leaves no runnable handler
\* behind. Which commands and messages arrive is up to the users.
Resume(t) == SendAck(t) \/ SendItem(t) \/ SendSleep(t) \/ FinalReply(t)

FairSession == SpecSession /\ \A t \in TaskIds : WF_vars(Resume(t))

-----------------------------------------------------------------------------
(* The handlers as registered: setup_handlers and the application's dispatch *)

\* bot.py:486-503: application.add_handler(...) in this order, all in the
\* default group
Handlers ==
    << [type |-> "command", command |-> "start", callback |-> "start"],
       [type |-> "command", command |-> "help", callback |-> "help_command"],
       [type |-> "command", command |-> "stats", callback |-> "stats"],
       [type |-> "command", command |-> "broadcast", callback |-> "start_broadcast"],
       [type |-> "command", command |-> "send_broadcast", callback |-> "send_broadcast"],
       [type |-> "command", command |-> "cancel_broadcast", callback |-> "cancel_broadcast"],
       [type |-> "message", command |-> "", callback |-> "collect_broadcast_message"],
       [type |-> "chat_member", command |-> "", callback |-> "track_user_join"],
       [type |-> "chat_member", command |-> "", callback |-> "track_user_leave"] >>

\* CommandHandler(name, ...), MessageHandler(filters.ALL & ~filters.COMMAND, ...),
\* ChatMemberHandler(..., ChatMemberHandler.CHAT_MEMBER): which updates a
\* registered handler accepts
Accepts(h, type, command) ==
    /\ h.type = type
    /\ h.type = "command" => h.command = command

\* Within a handler group the application gives an update to the first handler
\* that accepts it and to no other.
Route(type, command) ==
    LET hits == {i \in 1..Len(Handlers) : Accepts(Handlers[i], type, command)} IN
    IF hits = {} THEN "none"
    ELSE Handlers[CHOOSE i \in hits : \A j \in hits : i <= j].callback

\* A chat_member update arrives and is dispatched.
RoutedChatMember(t, u) ==
    LET callback == Route("chat_member", "") IN
    IF callback = "track_user_join" THEN JoinBegin(t, u)
    ELSE IF callback = "track_user_leave" THEN LeaveBegin(t, u)
    ELSE FALSE

\* The next step of the handler running in slot t, whichever handler the
\* dispatch started there.
RoutedStep(t) ==
    IF task[t].pc = "join_welcome" THEN JoinWelcome(t)
    ELSE IF task[t].pc = "leave_ban" THEN LeaveBan(t)
    ELSE IF task[t].pc = "leave_notify" THEN LeaveNotify(t)
    ELSE IF task[t].pc = "leave_error_msg" THEN LeaveErrorMsg(t)
    ELSE FALSE

NextRouted ==
    \/ Tick
    \/ \E t \in TaskIds, u \in ChatMemberUpdates : RoutedChatMember(t, u)
    \/ \E t \in TaskIds : RoutedStep(t)
    \/ \E t \in TaskIds : Return(t)

SpecRouted == Init /\ [][NextRouted]_vars

-----------------------------------------------------------------------------
(* Claims on the membership tracker *)

LeaveTasks == {t \in TaskIds : task[t].handler = "track_user_leave"}

\* The ban calls an invocation has issued so far.
BanCalls(t) ==
    {i \in 1..Len(task[t].calls) : task[t].calls[i].op = "ban_chat_member"}

\* C1: a leave that finds a record issues exactly one ban call, for that user
\* in that chat, when the time since the most recent recorded join is below
\* the ban window, and none when it is equal to the window or above it.
C1_BanIffWithinWindow ==
    \A t \in LeaveTasks :
        /\ \A i \in BanCalls(t) :
              /\ task[t].calls[i].chat = task[t].chat
              /\ task[t].calls[i].arg = task[t].user
        /\ task[t].pc = "done" /\ task[t].found =>
              Cardinality(BanCalls(t)) =
                 IF task[t].elapsed < BAN_DURATION_HOURS * TicksPerHour THEN 1 ELSE 0
        /\ task[t].pc = "done" /\ ~task[t].found => BanCalls(t) = {}

\* Two leaves have finished: one exactly at the window without a ban, one
\* inside it with its ban.
C1_Witness ==
    \E s, t \in LeaveTasks :
        /\ task[s].pc = "done" /\ task[s].found
        /\ task[s].elapsed = BAN_DURATION_HOURS * TicksPerHour
        /\ BanCalls(s) = {}
        /\ task[t].pc = "done" /\ task[t].found
        /\ task[t].elapsed < BAN_DURATION_HOURS * TicksPerHour
        /\ Cardinality(BanCalls(t)) = 1

\* C2: as registered, a leave transition of a tracked (chat, user) inside the
\* ban window is processed by track_user_leave and has led to a ban call by
\* the time its processing is over.
C2_LeaveRoutedToLeaveHandler ==
    \A t \in TaskIds :
        /\ task[t].pc = "done"
        /\ IsLeaveTransition(task[t].old, task[t].new)
        /\ task[t].tracked
        /\ task[t].elapsed < BAN_DURATION_HOURS * TicksPerHour
        => /\ task[t].handler = "track_user_leave"
           /\ BanCalls(t) # {}

\* C3: the step that ends a leave which found a record leaves no record for
\* (chat, user), whatever the ban and the messages did.
C3_RecordAbsentAfterLeave ==
    [][\A t \in TaskIds :
          /\ task[t].pc # "done"
          /\ task'[t].pc = "done"
          /\ task'[t].handler = "track_user_leave"
          /\ task'[t].found
          => user_key(task'[t].chat, task'[t].user) \notin DOMAIN user_join_times']_vars

\* A leave has finished after its ban call and its "could not ban" message
\* both failed, and the record is gone.
C3_Witness ==
    \E t \in LeaveTasks :
        /\ task[t].pc = "done" /\ task[t].found
        /\ \E i, j \in 1..Len(task[t].calls) :
              /\ task[t].calls[i].op = "ban_chat_member" /\ ~task[t].calls[i].ok
              /\ task[t].calls[j].text = "could_not_ban" /\ ~task[t].calls[j].ok
        /\ user_key(task[t].chat, task[t].user) \notin DOMAIN user_join_times

\* C4: a leave event for a pair without a record ends at once, with no gateway
\* call, and changes none of the three stores.
C4_UntrackedLeaveNoEffect ==
    [][\A t \in TaskIds :
          /\ task[t].pc = "idle"
          /\ task'[t].handler = "track_user_leave"
          /\ user_key(task'[t].chat, task'[t].user) \notin DOMAIN user_join_times
          => /\ task'[t].pc = "done"
             /\ task'[t].calls = <<>>
             /\ UNCHANGED <<user_join_times, broadcast_data, active_chats>>]_vars

\* A leave transition of an untracked pair has been handled while another
\* pair is tracked.
C4_Witness ==
    \E t \in LeaveTasks :
        /\ task[t].pc = "done"
        /\ IsLeaveTransition(task[t].old, task[t].new)
        /\ ~task[t].tracked
        /\ task[t].calls = <<>>
        /\ DOMAIN user_join_times # {}
        /\ active_chats # {}

-----------------------------------------------------------------------------
(* Claims on the broadcast dispatcher *)

SendTasks == {t \in TaskIds : task[t].handler = "send_broadcast"}

\* The positions in an invocation's calls of the sends it made to chat c.
SendsTo(t, c) ==
    {i \in 1..Len(task[t].calls) :
        task[t].calls[i].op # "reply_text" /\ task[t].calls[i].chat = c}

FailedChat(t, c) == \E i \in SendsTo(t, c) : ~task[t].calls[i].ok

\* The loop over the chats has ended for this invocation.
DispatchOver(t) ==
    /\ task[t].handler = "send_broadcast"
    /\ task[t].chats # {}
    /\ task[t].pc \in {"final_reply", "done"}

\* The message_ids of a session's items, in list order.
Ids(messages) == [i \in 1..Len(messages) |-> messages[i].message_id]

\* The message_ids sent to chat c, in the order of the sends.
SentIds(t, c) ==
    LET sends == SelectSeq(task[t].calls,
                           LAMBDA x : x.op # "reply_text" /\ x.chat = c) IN
    [i \in 1..Len(sends) |-> sends[i].arg]

\* Whether chat c was sent the item sequence from its first item on, up to
\* its own first failure or else to the end.
AttemptedInFull(t, c) ==
    LET sent == SentIds(t, c) IN
    /\ Len(sent) <= Len(task[t].messages)
    /\ sent = SubSeq(Ids(task[t].messages), 1, Len(sent))
    /\ FailedChat(t, c) \/ Len(sent) >= task[t].total_messages

\* C5: when a send to chat C fails, C is counted failed and every other target
\* chat is still attempted with the item sequence; whether another chat
\* succeeds depends on its own sends only.
C5_FailureIsolated ==
    \A t \in TaskIds : DispatchOver(t) =>
        \A c \in task[t].chats : FailedChat(t, c) =>
            /\ task[t].fail_count >= 1
            /\ \A d \in task[t].chats \ {c} :
                  /\ task[t].total_messages >= 1 => SendsTo(t, d) # {}
                  /\ AttemptedInFull(t, d)

\* A dispatch to two chats is over: one failed at its first item and the other
\* received both items.
C5_Witness ==
    \E t \in TaskIds : \E c, d \in task[t].chats :
        /\ DispatchOver(t)
        /\ c # d
        /\ FailedChat(t, c) /\ Cardinality(SendsTo(t, c)) = 1
        /\ ~FailedChat(t, d) /\ Cardinality(SendsTo(t, d)) = 2

\* C6: a failed send to a chat is the last send of the dispatch to that chat
\* (the item is not retried, later items are not sent), and what follows it is
\* a send to another chat or the end of the loop.
C6_AbandonAfterFailure ==
    \A t \in SendTasks : \A i \in 1..Len(task[t].calls) :
        LET f == task[t].calls[i] IN
        f.op # "reply_text" /\ ~f.ok =>
            /\ \A j \in SendsTo(t, f.chat) : j <= i
            /\ f.chat \notin task[t].todo
            /\ task[t].pc \in {"send_item", "sleep"} /\ i = Len(task[t].calls)
                  => task[t].cur # f.chat

\* A chat failed at the first of two items and the dispatch is sending to the
\* next chat.
C6_Witness ==
    \E t \in SendTasks : \E c \in task[t].chats :
        /\ FailedChat(t, c)
        /\ Cardinality(SendsTo(t, c)) = 1
        /\ Len(task[t].messages) = 2
        /\ task[t].pc = "send_item" /\ task[t].cur # c

\* C7: a report counts every target chat once: succeeded are the chats all of
\* whose sends returned, failed those with a send that raised.
C7_EachChatCountedOnce ==
    \A t \in SendTasks : task[t].report # <<>> =>
        LET rp == task[t].report[1] IN
        /\ rp.succeeded = Cardinality({c \in task[t].chats : ~FailedChat(t, c)})
        /\ rp.failed = Cardinality({c \in task[t].chats : FailedChat(t, c)})
        /\ rp.succeeded + rp.failed = Cardinality(task[t].chats)
        /\ \A c \in task[t].chats : AttemptedInFull(t, c)

\* A report counts one chat succeeded and one failed.
C7_Witness ==
    \E t \in SendTasks :
        /\ task[t].report # <<>>
        /\ task[t].report[1].succeeded = 1
        /\ task[t].report[1].failed = 1

\* C8: in a report totalDeliveries is succeeded times itemsPerChat, and
\* itemsPerChat is the number of items sent to each succeeded chat.
C8_TotalDeliveries ==
    \A t \in SendTasks : task[t].report # <<>> =>
        LET rp == task[t].report[1] IN
        /\ rp.totalDeliveries = rp.succeeded * rp.itemsPerChat
        /\ \A c \in task[t].chats :
              ~FailedChat(t, c) => Cardinality(SendsTo(t, c)) = rp.itemsPerChat

\* C9: the session keeps the items in the order they arrived, and each chat is
\* sent them in that order, one after the other from the first.
C9_SentInComposedOrder ==
    /\ \A u \in DOMAIN broadcast_data :
          \A i, j \in 1..Len(broadcast_data[u].messages) :
              i < j => broadcast_data[u].messages[i].message_id
                          < broadcast_data[u].messages[j].message_id
    /\ \A t \in SendTasks : \A c \in task[t].chats :
          LET sent == SentIds(t, c) IN
          /\ \A i, j \in 1..Len(sent) : i < j => sent[i] < sent[j]
          /\ Len(sent) <= Len(task[t].messages)
          /\ sent = SubSeq(Ids(task[t].messages), 1, Len(sent))

\* Both items of a session have been sent to a chat.
C9_Witness ==
    \E t \in SendTasks : \E c \in task[t].chats :
        /\ Len(SentIds(t, c)) = 2
        /\ \A i \in SendsTo(t, c) : task[t].calls[i].ok

-----------------------------------------------------------------------------
(* Claims on the session store under concurrent events *)

\* The dispatch has bound the session's list (bot.py:360) and entered the loop.
Taken(t) ==
    /\ task[t].handler = "send_broadcast"
    /\ task[t].chats # {}

\* C11: the sequence a dispatch has taken is not changed by a later append of
\* the same operator: the list the dispatch iterates keeps the length it had
\* when it was taken, and no chat is sent more items than that.
C11_TakenSequenceIsolated ==
    \A t \in TaskIds : Taken(t) =>
        /\ Len(task[t].messages) = task[t].total_messages
        /\ \A c \in task[t].chats : Len(SentIds(t, c)) <= task[t].total_messages

\* The content types collect_broadcast_message restages.
Supported == {"text", "photo", "video", "document", "sticker"}

\* C12: a non-command message of a sender without a live session changes no
\* session and is not answered; a message of a supported type from a sender
\* with a live session adds exactly one item of that type at the end of that
\* session's items, with an id later than every item already there, and
\* changes no other session.
C12_AppendOnlyWithSession ==
    [][\A t \in TaskIds, u \in Users, k \in InboundKinds :
          CollectMessage(t, u, k) =>
             IF u \notin DOMAIN broadcast_data
             THEN /\ broadcast_data' = broadcast_data
                  /\ task'[t].pc = "done"
                  /\ task'[t].calls = <<>>
             ELSE IF k \notin Supported
             THEN broadcast_data' = broadcast_data
             ELSE LET was == broadcast_data[u].messages
                      now == broadcast_data'[u].messages IN
                  /\ DOMAIN broadcast_data' = DOMAIN broadcast_data
                  /\ \A v \in DOMAIN broadcast_data \ {u} :
                        broadcast_data'[v] = broadcast_data[v]
                  /\ Len(now) = Len(was) + 1
                  /\ SubSeq(now, 1, Len(was)) = was
                  /\ now[Len(now)].type = k
                  /\ \A i \in 1..Len(was) :
                        was[i].message_id < now[Len(now)].message_id]_vars

\* A second item has been appended to the operator's session after the first,
\* and a message of a sender without a session has been dropped unanswered.
C12_Witness ==
    /\ \E u \in DOMAIN broadcast_data :
          /\ Len(broadcast_data[u].messages) = 2
          /\ broadcast_data[u].messages[1].message_id
                < broadcast_data[u].messages[2].message_id
    /\ \E t \in TaskIds :
          /\ task[t].handler = "collect_broadcast_message"
          /\ task[t].user \notin DOMAIN broadcast_data
          /\ task[t].pc = "done"
          /\ task[t].calls = <<>>

\* C13: a send-broadcast of an operator who has no session, or a session
\* without items, goes straight to the "no messages" reply and changes no
\* store; the invocation ends with that reply as its only gateway call, so no
\* send to any chat is issued.
C13_EmptySendRefused ==
    [][\A t \in TaskIds :
          /\ /\ task[t].pc = "idle"
             /\ task'[t].handler = "send_broadcast"
             /\ task'[t].user \in ADMIN_IDS
             /\ \/ task'[t].user \notin DOMAIN broadcast_data
                \/ broadcast_data[task'[t].user].messages = <<>>
             => /\ task'[t].pc = "final_reply"
                /\ task'[t].text = "no_messages"
                /\ task'[t].calls = <<>>
                /\ UNCHANGED <<user_join_times, broadcast_data, active_chats>>
          /\ /\ task[t].handler = "send_broadcast"
             /\ task[t].text = "no_messages"
             /\ task[t].pc # "done"
             /\ task'[t].pc = "done"
             => /\ \E ok \in BOOLEAN :
                      task'[t].calls =
                         <<Call("reply_text", task[t].chat, 0, "no_messages", ok)>>
                /\ UNCHANGED <<user_join_times, broadcast_data, active_chats>>]_vars

\* With a chat registered, a send-broadcast on a session without items has
\* been refused and its reply delivered; the empty session is still there.
C13_Witness ==
    \E t \in TaskIds :
        /\ task[t].handler = "send_broadcast"
        /\ task[t].pc = "done"
        /\ task[t].calls = <<Call("reply_text", task[t].chat, 0, "no_messages", TRUE)>>
        /\ task[t].user \in DOMAIN broadcast_data
        /\ broadcast_data[task[t].user].messages = <<>>
        /\ active_chats # {}

\* The handlers of the commands /help lists "For Admins" (bot.py:88-92).
AdminCommands == {"start_broadcast", "send_broadcast", "cancel_broadcast", "stats"}

\* C14: a begin-broadcast, send-broadcast, cancel-broadcast or show-stats of a
\* sender outside ADMIN_IDS goes straight to the "not authorized" reply and
\* changes none of the three stores.
C14_UnauthorizedRejected ==
    [][\A t \in TaskIds :
          /\ task[t].pc = "idle"
          /\ task'[t].handler \in AdminCommands
          /\ task'[t].user \notin ADMIN_IDS
          => /\ task'[t].pc = "final_reply"
             /\ task'[t].text = "not_authorized"
             /\ UNCHANGED <<user_join_times, broadcast_data, active_chats>>]_vars

\* C15: every user with a live session is in ADMIN_IDS, and no item has been
\* appended for a user outside it.
C15_SessionsOnlyForOperators ==
    /\ \A u \in DOMAIN broadcast_data : u \in ADMIN_IDS
    /\ \A u \in Users \ ADMIN_IDS : appended[u] = 0

\* A user outside ADMIN_IDS has been refused a begin-broadcast and has then
\* sent a plain message, which was dropped; the operator's session holds an
\* item meanwhile.
C15_Witness ==
    \E s, t \in TaskIds :
        /\ task[s].handler = "start_broadcast"
        /\ task[s].user \notin ADMIN_IDS
        /\ task[s].pc = "done"
        /\ task[s].calls = <<Call("reply_text", task[s].chat, 0, "not_authorized", TRUE)>>
        /\ task[t].handler = "collect_broadcast_message"
        /\ task[t].user = task[s].user
        /\ task[t].pc = "done"
        /\ task[t].user \notin DOMAIN broadcast_data
        /\ \E u \in DOMAIN broadcast_data : broadcast_data[u].messages # <<>>

-----------------------------------------------------------------------------
(* Claims on the chat registry *)

\* C16: once an event that carries a chat has been processed, that chat is in
\* active_chats.
C16_ProcessedChatRegistered ==
    \A t \in TaskIds :
        task[t].pc = "done" /\ task[t].chat \in Chats => task[t].chat \in active_chats

-----------------------------------------------------------------------------
(* Claims on the operator's replies *)

\* A reply of a send-broadcast that tells the operator how the command ended.
Answers == {"not_authorized", "no_messages", "no_active_chats", "report"}

Answered(t) ==
    \E i \in 1..Len(task[t].calls) :
        /\ task[t].calls[i].op = "reply_text"
        /\ task[t].calls[i].ok
        /\ task[t].calls[i].text \in Answers

ReplyFailed(t) ==
    \E i \in 1..Len(task[t].calls) :
        task[t].calls[i].op = "reply_text" /\ ~task[t].calls[i].ok

\* C17: a send-broadcast of an operator that is being processed leads to a
\* delivered refusal or report, unless one of its replies failed.
C17_SendAnswered ==
    \A t \in TaskIds :
        (task[t].handler = "send_broadcast" /\ task[t].user \in ADMIN_IDS)
           ~> (task[t].handler = "send_broadcast" /\ (Answered(t) \/ ReplyFailed(t)))

\* C18: a cancel-broadcast of a user with a live session removes that session
\* and no other, and goes to the "cancelled" reply with a count equal to the
\* number of items appended since the user's last begin; without a live
\* session it goes to the "no active broadcast" reply and changes no store.
C18_CancelDiscardsSession ==
    [][\A t \in TaskIds :
          task[t].pc = "idle" /\ task'[t].handler = "cancel_broadcast" =>
             LET u == task'[t].user IN
             /\ task'[t].pc = "final_reply"
             /\ UNCHANGED <<user_join_times, active_chats>>
             /\ IF u \in DOMAIN broadcast_data
                THEN /\ broadcast_data' = DictPop(broadcast_data, u)
                     /\ task'[t].text = "cancelled"
                     /\ task'[t].total_messages = appended[u]
                ELSE /\ broadcast_data' = broadcast_data
                     /\ task'[t].text = "no_active_broadcast"]_vars

\* A session of two items has been cancelled with the count 2 reported, and a
\* second cancel-broadcast has found no session.
C18_Witness ==
    \E s, t \in TaskIds :
        /\ task[s].handler = "cancel_broadcast"
        /\ task[s].pc = "done"
        /\ task[s].calls = <<Call("reply_text", task[s].chat, 0, "cancelled", TRUE)>>
        /\ task[s].total_messages = 2
        /\ task[s].user \notin DOMAIN broadcast_data
        /\ task[t].handler = "cancel_broadcast"
        /\ task[t].user = task[s].user
        /\ task[t].text = "no_active_broadcast"

-----------------------------------------------------------------------------
(* Claims on the membership tracker under concurrent events *)

\* The leave invocations in flight for (chat, user) that have issued a ban.
Banning(chat, user) ==
    {t \in LeaveTasks :
        task[t].chat = chat /\ task[t].user = user /\ BanCalls(t) # {}}

\* C19: when every pair joins at most once, at most one leave invocation of a
\* pair issues a ban call, however the leave events of the pair interleave.
C19_OneBanPerJoin ==
    \A c \in Chats, u \in TrackedUsers : Cardinality(Banning(c, u)) <= 1

\* The record of the invocation's pair is of a join recorded after the join
\* this leave consulted: elapsed is the clock at the leave's start minus the
\* join_time it read, and the clock does not go back, so the join_time it read
\* is at most clock - elapsed.
RejoinedSince(t) ==
    LET key == user_key(task[t].chat, task[t].user) IN
    /\ key \in DOMAIN user_join_times
    /\ user_join_times[key].join_time > clock - task[t].elapsed

\* C20: the step that ends a leave which was waiting on its ban or on a
\* message keeps the record of a join that was recorded for the same pair
\* while the leave was in progress.
C20_NewJoinSurvivesLeave ==
    [][\A t \in TaskIds :
          /\ task[t].handler = "track_user_leave"
          /\ task[t].pc \in {"leave_ban", "leave_notify", "leave_error_msg"}
          /\ task'[t].pc = "done"
          /\ RejoinedSince(t)
          => LET key == user_key(task[t].chat, task[t].user) IN
             /\ key \in DOMAIN user_join_times'
             /\ user_join_times'[key] = user_join_times[key]]_vars

-----------------------------------------------------------------------------
(* Claims on sessions and dispatches of the same operator *)

\* The operator has a live session that is not the one this dispatch took:
\* the list the dispatch bound is no longer the list of the stored session,
\* which a begin-broadcast during the dispatch has replaced.
SessionReplaced(t) ==
    /\ task[t].handler = "send_broadcast"
    /\ task[t].pc \in {"send_item", "sleep"}
    /\ ~task[t].aliased
    /\ task[t].user \in DOMAIN broadcast_data

\* C21: the step that ends the loop of a dispatch leaves a session the
\* operator began during that dispatch in place, with its items.
C21_NewSessionSurvivesCleanup ==
    [][\A t \in TaskIds :
          SessionReplaced(t) /\ task'[t].pc \in {"final_reply", "done"}
          => /\ task[t].user \in DOMAIN broadcast_data'
             /\ broadcast_data'[task[t].user] = broadcast_data[task[t].user]]_vars

\* The invocation has sent an item to a chat.
HasDispatched(t) ==
    \E i \in 1..Len(task[t].calls) : task[t].calls[i].op # "reply_text"

\* C22: of two send-broadcast invocations of an operator that have taken the
\* same session (both hold the list of the session now stored), at most one
\* has sent items to the chats.
C22_SessionConsumedOnce ==
    \A s, t \in SendTasks :
        /\ s # t
        /\ task[s].user = task[t].user
        /\ task[s].aliased /\ task[t].aliased
        => ~(HasDispatched(s) /\ HasDispatched(t))

-----------------------------------------------------------------------------
(* Claims on the classification of status changes *)

\* The statuses with which a join is recorded (bot.py:136) and the statuses a
\* leave ends in (bot.py:171).
MemberLike == {"member", "administrator", "creator"}
NotMemberLike == {"left", "kicked"}

\* C23: when a handler is invoked on a status change, the pair is not both a
\* join and a leave; a pair that is neither changes no store and ends the
\* handler at once; and track_user_leave, invoked for a tracked pair on a
\* change from a status a join is recorded with to left or kicked, takes it
\* as a leave and consults the record.
C23_ClassificationConsistent ==
    [][\A t \in TaskIds :
          task[t].pc = "idle" /\ task'[t].handler \in {"track_user_join", "track_user_leave"} =>
             LET old == task'[t].old
                 new == task'[t].new IN
             /\ ~(IsJoinTransition(old, new) /\ IsLeaveTransition(old, new))
             /\ ~IsJoinTransition(old, new) /\ ~IsLeaveTransition(old, new)
                   => /\ task'[t].pc = "done"
                      /\ UNCHANGED <<user_join_times, broadcast_data, active_chats>>
             /\ /\ task'[t].handler = "track_user_leave"
                /\ old \in MemberLike /\ new \in NotMemberLike
                /\ task'[t].tracked
                => task'[t].found]_vars

-----------------------------------------------------------------------------
(* Claims on the ban failure notification *)

\* The "could not ban" messages an invocation has attempted.
CouldNotBanCalls(t) ==
    {i \in 1..Len(task[t].calls) : task[t].calls[i].text = "could_not_ban"}

BanFailed(t) == \E i \in BanCalls(t) : ~task[t].calls[i].ok

\* C24: a leave issues at most one ban call; it attempts the "could not ban"
\* message only when its ban call failed, and a leave that has ended after a
\* failed ban call has attempted it.
C24_CouldNotBanIffBanFailed ==
    \A t \in LeaveTasks :
        /\ Cardinality(BanCalls(t)) <= 1
        /\ CouldNotBanCalls(t) # {} => BanFailed(t)
        /\ task[t].pc = "done" /\ BanFailed(t) => CouldNotBanCalls(t) # {}

-----------------------------------------------------------------------------
(* Claims on the targets of a dispatch *)

\* The positions of the sends among an invocation's calls.
Sends(t) == {i \in 1..Len(task[t].calls) : task[t].calls[i].op # "reply_text"}

\* Each chat is served in one go: between two sends to a chat there is no send
\* to another chat.
ServedOnce(t) ==
    \A i, j, k \in Sends(t) :
        i < j /\ j < k /\ task[t].calls[i].chat = task[t].calls[k].chat
        => task[t].calls[j].chat = task[t].calls[i].chat

\* C25: the targets of a dispatch are the chats in active_chats when the
\* handler takes its snapshot and stay the same whatever is registered later;
\* sends go to the targets only, each target is served in one go, and when the
\* loop is over every target has been visited and counted once.
C25_DispatchTargetsSnapshot ==
    /\ [](\A t \in SendTasks :
            /\ \A i \in Sends(t) : task[t].calls[i].chat \in task[t].chats
            /\ ServedOnce(t)
            /\ task[t].todo \subseteq task[t].chats
            /\ DispatchOver(t) =>
                  /\ task[t].todo = {}
                  /\ task[t].success_count + task[t].fail_count
                        = Cardinality(task[t].chats)
                  /\ task[t].total_messages >= 1 =>
                        \A c \in task[t].chats : SendsTo(t, c) # {})
    /\ [][\A t \in TaskIds :
            /\ task[t].pc = "send_ack" /\ task'[t].chats # {}
                  => task'[t].chats = active_chats
            /\ task[t].handler = "send_broadcast" /\ task[t].chats # {}
               /\ task'[t].handler = "send_broadcast"
                  => task'[t].chats = task[t].chats]_vars

\* A dispatch that took its snapshot with one chat registered has served that
\* chat and is about to end its loop; a second chat, registered meanwhile, has
\* been sent nothing.
C25_Witness ==
    \E t \in SendTasks : \E c \in Chats :
        /\ task[t].pc = "sleep"
        /\ task[t].chats = {c}
        /\ task[t].todo = {}
        /\ SendsTo(t, c) # {}
        /\ active_chats = Chats
        /\ \A d \in Chats \ {c} : SendsTo(t, d) = {}

=============================================================================
